---- MODULE Spec2Model ----
(***************************************************************************)
(* Model of src/scheduler.py: the Scheduler that runs ffmpeg jobs on       *)
(* watcher threads, bounded by the core count, and tracks their progress.  *)
(* Two sequential functions that use no scheduler are modelled after it:   *)
(* _generate_chapters_csv of src/youtube.py and cut_files of src/script.py.*)
(*                                                                         *)
(* Threads: the caller's thread (Main) and one watcher thread per job.     *)
(* Every statement that takes or releases the scheduler lock, reads the    *)
(* process's stderr or polls the process is a step of its own, so that     *)
(* the interleavings of the threads are those of the program.              *)
(***************************************************************************)
EXTENDS Integers, Sequences, FiniteSets, TLC

\* ------------------------------------------------------------------ bounds
\* Jobs the caller may enqueue in the scheduler model.
MaxJobs == 3
\* multiprocessing.cpu_count() is drawn from 1..MaxCpu.
MaxCpu == 3
\* Jobs the caller may enqueue in the fair model (liveness).
FairJobs == 2
\* Jobs the caller may enqueue in the probe model.
ProbeJobs == 2
\* Jobs the caller may enqueue in the fill model: the most of any model.
FillJobs == 4

\* ------------------------------------------------------------ identifiers
Main == 0
Jobs == 1..FillJobs
Threads == {Main} \cup Jobs
NoThread == -1
Absent == -1
NotCached == -1

\* A source file is <<directory, base name>>.
FileList == << <<"a", "x">>, <<"a", "y">>, <<"b", "x">> >>
Files == {FileList[i] : i \in 1..Len(FileList)}
NoFile == <<"", "">>
basename(f) == f[2]
Names == {basename(f) : f \in Files}

\* Durations ffmpeg.probe may report for a file, in seconds.
Durations == {0, 60}

\* ---------------------------------------------------- text of the stderr
Digits == <<"0", "1", "2", "3", "4", "5", "6", "7", "8", "9">>
IsDigit(c) == \E i \in 1..10 : Digits[i] = c
DigitVal(c) == (CHOOSE i \in 1..10 : Digits[i] = c) - 1

\* ffmpeg prints two digits per field (%02d).
TwoDigits(n) == <<Digits[((n \div 10) % 10) + 1], Digits[(n % 10) + 1]>>

Pad(k) == [i \in 1..k |-> " "]

\* The progress text ffmpeg writes for an elapsed time of t seconds.
Marker(t) ==
    <<"t", "i", "m", "e", "=">> \o TwoDigits(t \div 3600) \o <<":">>
        \o TwoDigits((t % 3600) \div 60) \o <<":">> \o TwoDigits(t % 60)
        \o <<".", "0", "0">>

\* int(s) of the digits buf[i .. i+n-1].
ParseInt(buf, i, n) ==
    LET val[k \in 0..n] ==
            IF k = 0 THEN 0 ELSE 10 * val[k - 1] + DigitVal(buf[i + k - 1])
    IN  val[n]

IsAt(buf, i, c) == i <= Len(buf) /\ buf[i] = c

\* \d+ is greedy: the position after the longest run of digits of buf that
\* starts at i (i itself when buf has no digit there).
DigitsEnd(buf, i) ==
    LET end[k \in 1..(Len(buf) + 1)] ==
            IF k <= Len(buf) /\ IsDigit(buf[k]) THEN end[k + 1] ELSE k
    IN  IF i > Len(buf) THEN i ELSE end[i]

\* Whether "time=(\d+):(\d+):(\d+)" matches buf at position i.
MatchesAt(buf, i) ==
    LET e1 == DigitsEnd(buf, i + 5)
        e2 == DigitsEnd(buf, e1 + 1)
        e3 == DigitsEnd(buf, e2 + 1)
    IN  /\ i + 4 <= Len(buf)
        /\ SubSeq(buf, i, i + 4) = <<"t", "i", "m", "e", "=">>
        /\ e1 > i + 5 /\ IsAt(buf, e1, ":")
        /\ e2 > e1 + 1 /\ IsAt(buf, e2, ":")
        /\ e3 > e2 + 1

\* The groups (hour, min, sec) of the match at i, as int() reads them.
GroupsAt(buf, i) ==
    LET e1 == DigitsEnd(buf, i + 5)
        e2 == DigitsEnd(buf, e1 + 1)
        e3 == DigitsEnd(buf, e2 + 1)
    IN  <<ParseInt(buf, i + 5, e1 - (i + 5)),
          ParseInt(buf, e1 + 1, e2 - (e1 + 1)),
          ParseInt(buf, e2 + 1, e3 - (e2 + 1))>>

\* re.findall scans from the left: the position of the leftmost match, 0
\* when there is none.
FirstIndex(buf) ==
    LET first[k \in 1..(Len(buf) + 1)] ==
            IF k > Len(buf) THEN 0
            ELSE IF MatchesAt(buf, k) THEN k ELSE first[k + 1]
    IN  first[1]

\* len(matches) > 0
HasMatch(buf) == FirstIndex(buf) # 0

\* matches[0]: the groups of the leftmost match.
FirstMatch(buf) == CHOOSE g \in {GroupsAt(buf, i) : i \in {FirstIndex(buf)}} : TRUE

PercentRounded(g, d) ==
    (100 * (g[1] * 3600 + g[2] * 60 + g[3]) + d \div 2) \div d

\* int(100 * (hour * 3600 + min * 60 + sec) / expected_duration), d > 0:
\* int() truncates, and the operands are not negative.
Percent(g, d) == (100 * (g[1] * 3600 + g[2] * 60 + g[3])) \div d

\* process.stderr.read(10): the next ten bytes, fewer at the end of the stream.
ReadSize == 10
Chunk(s, p) ==
    LET last == IF p + ReadSize <= Len(s) THEN p + ReadSize ELSE Len(s)
    IN  SubSeq(s, p + 1, last)

\* max(multiprocessing.cpu_count() - 1, 1)
MaxThreads(cpus) == IF cpus - 1 > 1 THEN cpus - 1 ELSE 1

\* The stderr text of the processes of the scheduler model: one progress
\* line, before or past the source file's duration.
SchedStreams == {Marker(30) \o Pad(4)}

\* ------------------------------------------------------------------ state
VARIABLES
    cpu_count,          \* multiprocessing.cpu_count()
    waiting_jobs,       \* Scheduler._waiting_jobs: the jobs not yet launched
    running_threads,    \* Scheduler._running_threads: watcher threads
    lock,               \* Scheduler._lock: the thread that holds it
    current_progress,   \* Scheduler._current_progress: short name -> percent
    pc,                 \* each thread's position in the code
    n_enq,              \* number of enqueue_job calls made (job k is the kth)
    file,               \* each job's source file
    proc,               \* each job's ffmpeg process
    stream,             \* the text the process writes to its stderr
    pos,                \* how many bytes of it the watcher has read
    buffer,             \* the watcher's local buffer
    expected_duration,  \* the watcher's local expected_duration
    progress,           \* the watcher's local progress
    cache,              \* functools.cache of get_duration_sec
    probes,             \* how many times ffmpeg.probe ran on each file
    duration,           \* what ffmpeg.probe reports for each file, once known
    launched,           \* the jobs in the order their processes were spawned
    progress_str,       \* _print_progress's local progress_str: name -> percent
    reported,           \* how many emitted reports showed each name at 100
    chapters_csv,       \* _generate_chapters_csv: its arguments, locals and file
    cut                 \* cut_files: its arguments, locals and the errors logged

vars == <<cpu_count, waiting_jobs, running_threads, lock, current_progress, pc,
          n_enq, file, proc, stream, pos, buffer, expected_duration, progress,
          cache, probes, duration, launched, progress_str, reported,
          chapters_csv, cut>>

sched_vars == <<waiting_jobs, running_threads, current_progress>>
watch_vars == <<stream, pos, buffer, expected_duration, progress>>
probe_vars == <<cache, probes, duration>>
report_vars == <<progress_str, reported>>
script_vars == <<chapters_csv, cut>>

\* Scheduler.__init__, before any thread runs.
SchedulerInit ==
    /\ cpu_count \in 1..MaxCpu
    /\ waiting_jobs = <<>>
    /\ running_threads = <<>>
    /\ lock = NoThread
    /\ current_progress = [n \in Names |-> Absent]
    /\ pc = [t \in Threads |-> IF t = Main THEN "idle" ELSE "unstarted"]
    /\ n_enq = 0
    /\ file = [j \in Jobs |-> NoFile]
    /\ proc = [j \in Jobs |-> "none"]
    /\ stream = [j \in Jobs |-> <<>>]
    /\ pos = [j \in Jobs |-> 0]
    /\ buffer = [j \in Jobs |-> <<>>]
    /\ expected_duration = [j \in Jobs |-> Absent]
    /\ progress = [j \in Jobs |-> Absent]
    /\ cache = [f \in Files |-> NotCached]
    /\ probes = [f \in Files |-> 0]
    /\ duration = [f \in Files |-> Absent]
    /\ launched = <<>>
    /\ progress_str = [n \in Names |-> Absent]
    /\ reported = [n \in Names |-> 0]

\* The state in which neither _generate_chapters_csv nor cut_files was called.
CsvNotCalled ==
    [pc |-> "uncalled", video_type |-> "free", chapters |-> <<>>, f |-> <<>>,
     i |-> 0]
CutNotCalled ==
    [pc |-> "uncalled", files |-> 0, overwrite |-> FALSE, first_n_sec |-> 0,
     last_n_sec |-> 0, file |-> 0, duration |-> 0, first_position |-> 0,
     last_position |-> 0, real_duration |-> 0, expected_duration |-> 0,
     checked |-> <<>>]

Init ==
    /\ SchedulerInit
    /\ chapters_csv = CsvNotCalled
    /\ cut = CutNotCalled

\* threading.Thread.is_alive()
is_alive(t) == pc[t] \notin {"unstarted", "dead", "raised"}

\* -------------------------------------------------------- the lock
\* The statement after each self._lock.acquire().
AfterAcquire(l) ==
    CASE l = "mr_clean_lock" -> "mr_clean"
      [] l = "mr_lock"       -> "mr_body"
      [] l = "wt_clean_lock" -> "wt_clean"
      [] l = "wt_lock"       -> "wt_check"
      [] l = "wt_print_lock" -> "wt_print"
      [] l = "wf_lock"       -> "wf_write"
      [] l = "wf_final_lock" -> "wf_final"

AcquireLabels == {"mr_clean_lock", "mr_lock", "wt_clean_lock", "wt_lock",
                  "wt_print_lock", "wf_lock", "wf_final_lock"}

\* self._lock.acquire(): blocks while another thread holds the lock.
Acquire(self) ==
    /\ pc[self] \in AcquireLabels
    /\ lock = NoThread
    /\ lock' = self
    /\ pc' = [pc EXCEPT ![self] = AfterAcquire(pc[self])]
    /\ UNCHANGED <<cpu_count, script_vars, report_vars, sched_vars, n_enq, file, proc,
                   watch_vars, probe_vars, launched>>

\* ------------------------------------------------------ the caller
\* enqueue_job, line 32: the append; _maybe_run_job follows. The caller
\* makes at most limit calls, the kth with a file of files[k].
EnqueuedFirst(waiting, k) == <<k>> \o waiting
Enqueued(waiting, k) == Append(waiting, k)

enqueue_job(limit, files) ==
    /\ pc[Main] = "idle"
    /\ n_enq < limit
    /\ \E f \in files[n_enq + 1] :
        /\ file' = [file EXCEPT ![n_enq + 1] = f]
        /\ waiting_jobs' = Enqueued(waiting_jobs, n_enq + 1)
    /\ n_enq' = n_enq + 1
    /\ pc' = [pc EXCEPT ![Main] = "mr_clean_lock"]
    /\ UNCHANGED <<cpu_count, script_vars, report_vars, running_threads, lock,
                   current_progress, proc, watch_vars, probe_vars, launched>>

\* The caller calls wait_till_all_finished.
wait_till_all_finished ==
    /\ pc[Main] = "idle"
    /\ pc' = [pc EXCEPT ![Main] = "wt_clean_lock"]
    /\ UNCHANGED <<cpu_count, script_vars, report_vars, sched_vars, lock, n_enq, file, proc,
                   watch_vars, probe_vars, launched>>

\* _clean_threads, lines 51-54, called by _maybe_run_job or by
\* wait_till_all_finished.
AliveThreads(ts) == SelectSeq(ts, is_alive)

_clean_threads(self) ==
    /\ pc[self] \in {"mr_clean", "wt_clean"}
    /\ lock = self
    /\ running_threads' = AliveThreads(running_threads)
    /\ lock' = NoThread
    /\ pc' = [pc EXCEPT ![self] =
                 IF pc[self] = "mr_clean" THEN "mr_lock" ELSE "wt_lock"]
    /\ UNCHANGED <<cpu_count, script_vars, report_vars, waiting_jobs, current_progress,
                   n_enq, file, proc, watch_vars, probe_vars, launched>>

\* self._waiting_jobs.pop(0), line 62: the job it returns and the queue it
\* leaves.
PoppedLast(waiting) == waiting[Len(waiting)]
Popped(waiting) == Head(waiting)

NotPopped(waiting) == waiting
AfterPop(waiting) == Tail(waiting)

\* The condition of line 61.
MayLaunch(waiting, running, cpus) ==
    Len(waiting) > 0 /\ Len(running) < MaxThreads(cpus)

\* Where a thread goes when _maybe_run_job returns: the caller back to its
\* code, a watcher thread to its end.
AfterMaybeRun(self) == IF self = Main THEN "idle" ELSE "dead"

\* A watcher thread that ends drops its locals and its process object.
Dropped(f, self, init) == IF self \in Jobs THEN [f EXCEPT ![self] = init] ELSE f

\* _maybe_run_job, lines 60-71: pop, spawn, start the watcher, record it.
_maybe_run_job(self, streams) ==
    /\ pc[self] = "mr_body"
    /\ lock = self
    /\ IF MayLaunch(waiting_jobs, running_threads, cpu_count)
       THEN LET j == Popped(waiting_jobs) IN
            /\ waiting_jobs' = AfterPop(waiting_jobs)
            /\ \E s \in streams :
                   stream' = [Dropped(stream, self, <<>>) EXCEPT ![j] = s]
            /\ proc' = [proc EXCEPT ![j] = "running"]
            /\ running_threads' = Append(running_threads, j)
            /\ launched' = Append(launched, j)
            /\ pc' = [pc EXCEPT ![self] = AfterMaybeRun(self),
                                ![j] = "wf_duration"]
       ELSE /\ pc' = [pc EXCEPT ![self] = AfterMaybeRun(self)]
            /\ stream' = Dropped(stream, self, <<>>)
            /\ UNCHANGED <<waiting_jobs, proc, running_threads, launched>>
    /\ lock' = NoThread
    /\ pos' = Dropped(pos, self, 0)
    /\ buffer' = Dropped(buffer, self, <<>>)
    /\ expected_duration' = Dropped(expected_duration, self, Absent)
    /\ progress' = Dropped(progress, self, Absent)
    /\ UNCHANGED <<cpu_count, script_vars, report_vars, current_progress, n_enq, file,
                   probe_vars>>

\* _maybe_run_job, lines 62-63: run_async raises after the pop (the process
\* cannot be spawned). Nothing catches the exception and no finally releases
\* the lock: the call ends there, the job is in no list, the lock stays
\* held.
run_async_raises(self) ==
    /\ pc[self] = "mr_body"
    /\ lock = self
    /\ MayLaunch(waiting_jobs, running_threads, cpu_count)
    /\ waiting_jobs' = AfterPop(waiting_jobs)
    /\ pc' = [pc EXCEPT ![self] = "raised"]
    /\ stream' = Dropped(stream, self, <<>>)
    /\ pos' = Dropped(pos, self, 0)
    /\ buffer' = Dropped(buffer, self, <<>>)
    /\ expected_duration' = Dropped(expected_duration, self, Absent)
    /\ progress' = Dropped(progress, self, Absent)
    /\ UNCHANGED <<cpu_count, script_vars, report_vars, running_threads, lock,
                   current_progress, n_enq, file, proc, probe_vars, launched>>

\* _maybe_run_job, lines 62-69: new_thread.start() raises after the process
\* was spawned (no thread can be started). The process runs without a
\* watcher, the thread is not recorded, the lock stays held.
start_raises(self, streams) ==
    /\ pc[self] = "mr_body"
    /\ lock = self
    /\ MayLaunch(waiting_jobs, running_threads, cpu_count)
    /\ LET j == Popped(waiting_jobs) IN
           /\ \E s \in streams :
                  stream' = [Dropped(stream, self, <<>>) EXCEPT ![j] = s]
           /\ proc' = [proc EXCEPT ![j] = "running"]
           /\ launched' = Append(launched, j)
    /\ waiting_jobs' = AfterPop(waiting_jobs)
    /\ pc' = [pc EXCEPT ![self] = "raised"]
    /\ pos' = Dropped(pos, self, 0)
    /\ buffer' = Dropped(buffer, self, <<>>)
    /\ expected_duration' = Dropped(expected_duration, self, Absent)
    /\ progress' = Dropped(progress, self, Absent)
    /\ UNCHANGED <<cpu_count, script_vars, report_vars, running_threads, lock,
                   current_progress, n_enq, file, probe_vars>>

\* wait_till_all_finished, lines 39-44.
ShouldExit(waiting, running) == Len(waiting) = 0 /\ Len(running) = 0

wait_check ==
    /\ pc[Main] = "wt_check"
    /\ lock = Main
    /\ lock' = NoThread
    /\ pc' = [pc EXCEPT ![Main] =
                 IF ShouldExit(waiting_jobs, running_threads)
                 THEN "returned" ELSE "wt_print_lock"]
    /\ UNCHANGED <<cpu_count, script_vars, report_vars, sched_vars, n_enq, file, proc,
                   watch_vars, probe_vars, launched>>

\* _print_progress, lines 106-107: the strings of the report are built from
\* the table as it is.
SnapshotEvicted(table) ==
    [n \in Names |-> IF table[n] = 100 THEN Absent ELSE table[n]]
Snapshot(table) == table

snapshot ==
    /\ pc[Main] = "wt_print"
    /\ lock = Main
    /\ progress_str' = Snapshot(current_progress)
    /\ pc' = [pc EXCEPT ![Main] = "wt_evict"]
    /\ UNCHANGED <<cpu_count, script_vars, sched_vars, lock, n_enq, file, proc, watch_vars,
                   probe_vars, launched, reported>>

\* _print_progress, lines 108-110: the entries at 100 are popped.
EvictAll(table) == [n \in Names |-> Absent]
Evict(table) == [n \in Names |-> IF table[n] = 100 THEN Absent ELSE table[n]]

\* The report of line 111 shows the strings built at line 107.
Emitted(count, strings) ==
    [n \in Names |-> IF strings[n] = 100 THEN count[n] + 1 ELSE count[n]]

\* _print_progress, lines 108-115: evict, emit the report, release.
_print_progress ==
    /\ pc[Main] = "wt_evict"
    /\ lock = Main
    /\ current_progress' = Evict(current_progress)
    /\ reported' = Emitted(reported, progress_str)
    /\ progress_str' = [n \in Names |-> Absent]
    /\ lock' = NoThread
    /\ pc' = [pc EXCEPT ![Main] = "wt_sleep"]
    /\ UNCHANGED <<cpu_count, script_vars, waiting_jobs, running_threads, n_enq, file, proc,
                   watch_vars, probe_vars, launched>>

\* time.sleep(2), line 46.
sleep ==
    /\ pc[Main] = "wt_sleep"
    /\ pc' = [pc EXCEPT ![Main] = "wt_clean_lock"]
    /\ UNCHANGED <<cpu_count, script_vars, report_vars, sched_vars, lock, n_enq, file, proc,
                   watch_vars, probe_vars, launched>>

\* ------------------------------------------------------ the watcher
\* get_duration_sec, the functools.cache wrapper: a hit returns the cached
\* value, a miss calls the function.
NeverHit(entry) == FALSE
CacheHit(entry) == entry # NotCached

get_duration_sec(j) ==
    /\ pc[j] = "wf_duration"
    /\ IF CacheHit(cache[file[j]])
       THEN /\ expected_duration' = [expected_duration EXCEPT ![j] = cache[file[j]]]
            /\ pc' = [pc EXCEPT ![j] = "wf_read"]
       ELSE /\ pc' = [pc EXCEPT ![j] = "wf_probe"]
            /\ UNCHANGED expected_duration
    /\ UNCHANGED <<cpu_count, script_vars, report_vars, sched_vars, lock, n_enq, file, proc,
                   stream, pos, buffer, progress, probe_vars, launched>>

\* get_duration_sec, lines 17-18: probe the file; the result is cached. The
\* probe reports one of the given durations, the same on every probe.
probe(j, durations) ==
    /\ pc[j] = "wf_probe"
    /\ \E d \in (IF duration[file[j]] = Absent THEN durations
                 ELSE {duration[file[j]]}) :
        /\ duration' = [duration EXCEPT ![file[j]] = d]
        /\ cache' = [cache EXCEPT ![file[j]] = d]
        /\ expected_duration' = [expected_duration EXCEPT ![j] = d]
    /\ probes' = [probes EXCEPT ![file[j]] = @ + 1]
    /\ pc' = [pc EXCEPT ![j] = "wf_read"]
    /\ UNCHANGED <<cpu_count, script_vars, report_vars, sched_vars, lock, n_enq, file, proc,
                   stream, pos, buffer, progress, launched>>

\* _wait_till_finished, lines 97-98: only exit code 0 leaves the loop.
LoopExits(p) == p = "exit0"

AfterPollNoFinal(p) == IF LoopExits(p) THEN "mr_clean_lock" ELSE "wf_read"

\* Where the watcher goes after process.poll().
AfterPoll(p) == IF LoopExits(p) THEN "wf_final_lock" ELSE "wf_read"

\* _wait_till_finished, lines 80-93 and 97: read ten bytes, scan the buffer,
\* compute the percentage of the first match; without a match, poll. The
\* read blocks until ten bytes are there or the stream has ended. The
\* division raises ZeroDivisionError on a duration of 0: the exception is
\* not caught and ends the thread.
read(j) ==
    /\ pc[j] = "wf_read"
    /\ (pos[j] + ReadSize <= Len(stream[j]) \/ proc[j] # "running")
    /\ \E out \in {Chunk(stream[j], pos[j])} : \E buf \in {buffer[j] \o out} :
        IF HasMatch(buf)
        THEN IF expected_duration[j] = 0
             THEN /\ pc' = [pc EXCEPT ![j] = "raised"]
                  /\ pos' = [pos EXCEPT ![j] = 0]
                  /\ stream' = [stream EXCEPT ![j] = <<>>]
                  /\ buffer' = [buffer EXCEPT ![j] = <<>>]
                  /\ expected_duration' = [expected_duration EXCEPT ![j] = Absent]
                  /\ UNCHANGED progress
             ELSE /\ \E g \in {FirstMatch(buf)} :
                         progress' = [progress EXCEPT ![j] =
                                         Percent(g, expected_duration[j])]
                  /\ pc' = [pc EXCEPT ![j] = "wf_lock"]
                  /\ pos' = [pos EXCEPT ![j] = @ + Len(out)]
                  /\ buffer' = [buffer EXCEPT ![j] = <<>>]
                  /\ UNCHANGED <<stream, expected_duration>>
        ELSE /\ buffer' = [buffer EXCEPT ![j] = buf]
             /\ pos' = [pos EXCEPT ![j] = @ + Len(out)]
             /\ pc' = [pc EXCEPT ![j] = AfterPoll(proc[j])]
             /\ UNCHANGED <<stream, expected_duration, progress>>
    /\ UNCHANGED <<cpu_count, script_vars, report_vars, sched_vars, lock, n_enq, file, proc,
                   probe_vars, launched>>

\* _wait_till_finished, lines 95-97: store the percentage, release, poll.
write_progress(j) ==
    /\ pc[j] = "wf_write"
    /\ lock = j
    /\ current_progress' =
           [current_progress EXCEPT ![basename(file[j])] = progress[j]]
    /\ lock' = NoThread
    /\ pc' = [pc EXCEPT ![j] = AfterPoll(proc[j])]
    /\ UNCHANGED <<cpu_count, script_vars, report_vars, waiting_jobs, running_threads,
                   n_enq, file, proc, watch_vars, probe_vars, launched>>

\* _wait_till_finished, lines 100-101; _maybe_run_job follows.
write_final(j) ==
    /\ pc[j] = "wf_final"
    /\ lock = j
    /\ current_progress' = [current_progress EXCEPT ![basename(file[j])] = 100]
    /\ lock' = NoThread
    /\ pc' = [pc EXCEPT ![j] = "mr_clean_lock"]
    /\ UNCHANGED <<cpu_count, script_vars, report_vars, waiting_jobs, running_threads,
                   n_enq, file, proc, watch_vars, probe_vars, launched>>

\* ------------------------------------------------------ the process
ExitState(code) == IF code = 0 THEN "exit0" ELSE "exit1"

\* The ffmpeg process of job j exits with one of the given codes.
process_exit(j, codes) ==
    /\ proc[j] = "running"
    /\ \E c \in codes : proc' = [proc EXCEPT ![j] = ExitState(c)]
    /\ UNCHANGED <<cpu_count, script_vars, report_vars, sched_vars, lock, pc, n_enq, file,
                   watch_vars, probe_vars, launched>>

\* ------------------------------------------------------ specifications
MainStep(limit, files, streams) ==
    \/ enqueue_job(limit, files)
    \/ wait_till_all_finished
    \/ Acquire(Main)
    \/ _clean_threads(Main)
    \/ _maybe_run_job(Main, streams)
    \/ wait_check
    \/ snapshot
    \/ _print_progress
    \/ sleep

WatcherStep(j, streams, durations) ==
    \/ get_duration_sec(j)
    \/ probe(j, durations)
    \/ read(j)
    \/ Acquire(j)
    \/ write_progress(j)
    \/ write_final(j)
    \/ _clean_threads(j)
    \/ _maybe_run_job(j, streams)

\* The scheduler model: up to MaxJobs jobs, each on a file of its own (the
\* first and the third share a base name), every process writing one
\* progress line.
SchedFiles == [k \in Jobs |-> {FileList[((k - 1) % Len(FileList)) + 1]}]

Next ==
    \/ MainStep(MaxJobs, SchedFiles, SchedStreams)
    \/ \E j \in Jobs : WatcherStep(j, SchedStreams, Durations)
    \/ \E j \in Jobs : process_exit(j, {0, 1})

Spec == Init /\ [][Next]_vars

\* The same program when every process exits with code 0, every duration
\* is positive and the threads are scheduled fairly: a thread that can take
\* a step, or that can again and again take the lock, eventually does; a
\* running process eventually exits.
FairDurations == Durations \ {0}

NextFair ==
    \/ MainStep(FairJobs, SchedFiles, SchedStreams)
    \/ \E j \in 1..FairJobs : WatcherStep(j, SchedStreams, FairDurations)
    \/ \E j \in 1..FairJobs : process_exit(j, {0})

Fairness ==
    /\ SF_vars(MainStep(FairJobs, SchedFiles, SchedStreams))
    /\ \A j \in 1..FairJobs : SF_vars(WatcherStep(j, SchedStreams, FairDurations))
    /\ \A j \in 1..FairJobs : WF_vars(process_exit(j, {0}))

FairSpec == Init /\ [][NextFair]_vars /\ Fairness

\* The watcher model: one job, whose process writes up to two progress
\* lines, at non-decreasing times, anywhere relative to the ten-byte reads.
Pads == 0..(ReadSize - 1)
Times == {30, 31}
WatcherDurations == {0, 30, 60}

WatcherStreams ==
    {<<>>}
        \cup {Pad(p) \o Marker(t) : p \in Pads, t \in Times}
        \cup {Pad(p) \o Marker(t[1]) \o Pad(q) \o Marker(t[2]) :
                  p \in Pads, q \in Pads,
                  t \in {u \in Times \X Times : u[1] <= u[2]}}

NextWatcher ==
    \/ MainStep(1, SchedFiles, WatcherStreams)
    \/ WatcherStep(1, WatcherStreams, WatcherDurations)
    \/ process_exit(1, {0, 1})

WatcherSpec == Init /\ [][NextWatcher]_vars

\* The probe model: up to ProbeJobs jobs, each on one of two files that
\* have the same base name, so that jobs may share a file or only a name.
ProbeFiles == [k \in Jobs |-> {FileList[1], FileList[3]}]

NextProbe ==
    \/ MainStep(ProbeJobs, ProbeFiles, SchedStreams)
    \/ \E j \in 1..ProbeJobs : WatcherStep(j, SchedStreams, Durations)
    \/ \E j \in 1..ProbeJobs : process_exit(j, {0, 1})

ProbeSpec == Init /\ [][NextProbe]_vars

\* The fill model: up to FillJobs jobs, every process exiting with code 0
\* and every duration positive, so that slots are freed only by workers that
\* complete.
NextFill ==
    \/ MainStep(FillJobs, SchedFiles, SchedStreams)
    \/ \E j \in Jobs : WatcherStep(j, SchedStreams, FairDurations)
    \/ \E j \in Jobs : process_exit(j, {0})

FillSpec == Init /\ [][NextFill]_vars

\* The program on a machine of one core (capacity 1) when its threads are
\* scheduled fairly but nothing is assumed of the processes: a process may
\* run forever, exit with any code, and a watcher may end on an exception.
NextHung ==
    \/ MainStep(MaxJobs, SchedFiles, SchedStreams)
    \/ \E j \in 1..MaxJobs : WatcherStep(j, SchedStreams, Durations)
    \/ \E j \in 1..MaxJobs : process_exit(j, {0, 1})

ThreadFairness ==
    /\ SF_vars(MainStep(MaxJobs, SchedFiles, SchedStreams))
    /\ \A j \in 1..MaxJobs : SF_vars(WatcherStep(j, SchedStreams, Durations))

HungInit == Init /\ cpu_count = 1

HungSpec == HungInit /\ [][NextHung]_vars /\ ThreadFairness

\* The program when spawning a process or starting a thread may fail.
NextSpawn ==
    \/ Next
    \/ \E t \in Threads : run_async_raises(t)
    \/ \E t \in Threads : start_raises(t, SchedStreams)

SpawnSpec == Init /\ [][NextSpawn]_vars

\* --------------------------------- youtube.py: _generate_chapters_csv
\* The longest book.metadata.chapters of the chapters model.
MaxChapters == 4

\* class YoutubeVideoType(StrEnum)
FREE == "free"
PAID == "paid"
MYSTERY_BOOK == "mystery"
YoutubeVideoType == {FREE, PAID, MYSTERY_BOOK}

\* The chapter lists a book may have.
ChapterNames == {"c", "d"}
ChapterLists == UNION {[1..n -> ChapterNames] : n \in 0..MaxChapters}

\* What an f-string writes for the integer n.
Decimal(n) ==
    IF n < 10 THEN Digits[n + 1]
    ELSE Digits[((n \div 10) % 10) + 1] \o Digits[(n % 10) + 1]

\* A line of chapters.csv is <<ID, text after the comma>>.  The literals of
\* the source are transliterated: "Nazva", "Ustup", "Chastka".
HeaderRow == <<"ID", "Nazva">>
IntroRow(video_type) == <<"0", IF video_type = FREE THEN "Ustup" ELSE "">>
ChapterName(video_type, chapters, i) ==
    IF video_type = FREE THEN chapters[i + 1]
    ELSE IF video_type = MYSTERY_BOOK THEN "Chastka " \o Decimal(i + 1)
    ELSE ""
ChapterRow(video_type, chapters, i) ==
    <<Decimal(i + 1), "\"" \o ChapterName(video_type, chapters, i) \o "\"">>

\* The test that ends the loop after the row of chapters[i] is written.
Breaks(video_type, i) == video_type = PAID /\ i > 1

\* open(...) and f.write of the header
write_header ==
    /\ chapters_csv.pc = "open"
    /\ chapters_csv' = [chapters_csv EXCEPT !.pc = "intro", !.f = <<HeaderRow>>]
    /\ UNCHANGED <<cpu_count, report_vars, sched_vars, lock, pc, n_enq, file,
                   proc, watch_vars, probe_vars, launched, cut>>

\* the intro row, for every type but MYSTERY_BOOK
write_intro ==
    /\ chapters_csv.pc = "intro"
    /\ chapters_csv' =
          [chapters_csv EXCEPT
              !.pc = "loop",
              !.i = 0,
              !.f = IF chapters_csv.video_type # MYSTERY_BOOK
                    THEN Append(@, IntroRow(chapters_csv.video_type))
                    ELSE @]
    /\ UNCHANGED <<cpu_count, report_vars, sched_vars, lock, pc, n_enq, file,
                   proc, watch_vars, probe_vars, launched, cut>>

\* one iteration of the loop over enumerate(book.metadata.chapters)
write_chapter ==
    /\ chapters_csv.pc = "loop"
    /\ chapters_csv.i < Len(chapters_csv.chapters)
    /\ chapters_csv' =
          [chapters_csv EXCEPT
              !.f = Append(@, ChapterRow(chapters_csv.video_type,
                                         chapters_csv.chapters, chapters_csv.i)),
              !.pc = IF Breaks(chapters_csv.video_type, chapters_csv.i)
                     THEN "closed" ELSE "loop",
              !.i = IF Breaks(chapters_csv.video_type, chapters_csv.i)
                    THEN @ ELSE @ + 1]
    /\ UNCHANGED <<cpu_count, report_vars, sched_vars, lock, pc, n_enq, file,
                   proc, watch_vars, probe_vars, launched, cut>>

\* the loop is exhausted and the with block closes the file
close_csv ==
    /\ chapters_csv.pc = "loop"
    /\ chapters_csv.i = Len(chapters_csv.chapters)
    /\ chapters_csv' = [chapters_csv EXCEPT !.pc = "closed"]
    /\ UNCHANGED <<cpu_count, report_vars, sched_vars, lock, pc, n_enq, file,
                   proc, watch_vars, probe_vars, launched, cut>>

\* The chapters model: _generate_chapters_csv is called once, with any video
\* type and any book.
CsvInit ==
    /\ SchedulerInit
    /\ cpu_count = 1
    /\ chapters_csv \in
          {[CsvNotCalled EXCEPT !.pc = "open", !.video_type = t, !.chapters = c] :
              t \in YoutubeVideoType, c \in ChapterLists}
    /\ cut = CutNotCalled

_generate_chapters_csv ==
    \/ write_header
    \/ write_intro
    \/ write_chapter
    \/ close_csv

CsvSpec == CsvInit /\ [][_generate_chapters_csv]_vars

\* ------------------------------------------------ script.py: cut_files
\* The most files of one cut_files call.
MaxCutFiles == 2

\* Times are in tenths of a second: 0.5 s is 5.
HalfSecond == 5

\* What get_duration_sec reports for a source file.
CutDurations == {300}
\* The values of --first_n_sec and --last_n_sec.
CutSeconds == {0, 50}
\* How far the user moves the location before accepting it with 'y'.
Nudges == {-1, 0, 1}
\* By how much the written output is shorter than the range that was cut.
Shortfalls == {0, 5, 6}

\* find_location_in_audiofile: the start location, moved by the user's keys.
find_location_in_audiofile(start_location, nudge) == start_location + nudge

\* The test that guards logging.error("Bad file ...").
BadFile(real, expected) == real + HalfSecond < real

\* The loop head for the next file: skip it, or start cutting it.
cut_file ==
    /\ cut.pc = "for"
    /\ cut.file < cut.files
    /\ \E exists \in BOOLEAN : \E d \in CutDurations :
          cut' = IF exists /\ ~cut.overwrite
                 THEN [cut EXCEPT !.file = @ + 1]
                 ELSE [cut EXCEPT !.file = @ + 1, !.duration = d,
                                  !.pc = "positions"]
    /\ UNCHANGED <<cpu_count, report_vars, sched_vars, lock, pc, n_enq, file,
                   proc, watch_vars, probe_vars, launched, chapters_csv>>

\* first_position and last_position
find_positions ==
    /\ cut.pc = "positions"
    /\ \E n1 \in Nudges : \E n2 \in Nudges :
          cut' = [cut EXCEPT
                    !.pc = "ffmpeg",
                    !.first_position =
                        IF cut.first_n_sec # 0
                        THEN find_location_in_audiofile(cut.first_n_sec, n1)
                        ELSE 0,
                    !.last_position =
                        IF cut.last_n_sec # 0
                        THEN find_location_in_audiofile(
                                 cut.duration - cut.last_n_sec, n2)
                        ELSE cut.duration]
    /\ UNCHANGED <<cpu_count, report_vars, sched_vars, lock, pc, n_enq, file,
                   proc, watch_vars, probe_vars, launched, chapters_csv>>

\* ffmpeg writes the output; get_duration_sec(out_file) reads its duration
run_ffmpeg ==
    /\ cut.pc = "ffmpeg"
    /\ \E s \in Shortfalls :
          cut' = [cut EXCEPT
                    !.pc = "check",
                    !.real_duration =
                        (cut.last_position - cut.first_position) - s]
    /\ UNCHANGED <<cpu_count, report_vars, sched_vars, lock, pc, n_enq, file,
                   proc, watch_vars, probe_vars, launched, chapters_csv>>

\* expected_duration and the test of the output
check_duration ==
    /\ cut.pc = "check"
    /\ LET expected == cut.last_position - cut.first_position
       IN  cut' = [cut EXCEPT
                     !.pc = "for",
                     !.expected_duration = expected,
                     !.checked =
                         Append(@, [expected_duration |-> expected,
                                    real_duration |-> cut.real_duration,
                                    logged |-> BadFile(cut.real_duration,
                                                       expected)])]
    /\ UNCHANGED <<cpu_count, report_vars, sched_vars, lock, pc, n_enq, file,
                   proc, watch_vars, probe_vars, launched, chapters_csv>>

\* the loop over the files is exhausted
cut_return ==
    /\ cut.pc = "for"
    /\ cut.file = cut.files
    /\ cut' = [cut EXCEPT !.pc = "returned"]
    /\ UNCHANGED <<cpu_count, report_vars, sched_vars, lock, pc, n_enq, file,
                   proc, watch_vars, probe_vars, launched, chapters_csv>>

\* The cut model: cut_files is called once.
CutInit ==
    /\ SchedulerInit
    /\ cpu_count = 1
    /\ chapters_csv = CsvNotCalled
    /\ cut \in
          {[CutNotCalled EXCEPT !.pc = "for", !.files = n, !.overwrite = o,
                                !.first_n_sec = a, !.last_n_sec = b] :
              n \in 1..MaxCutFiles, o \in BOOLEAN,
              a \in CutSeconds, b \in CutSeconds}

cut_files ==
    \/ cut_file
    \/ find_positions
    \/ run_ffmpeg
    \/ check_duration
    \/ cut_return

CutSpec == CutInit /\ [][cut_files]_vars

\* ------------------------------------------------------------- claims
WaitLabels == {"wt_clean_lock", "wt_clean", "wt_lock", "wt_check",
               "wt_print_lock", "wt_print", "wt_evict", "wt_sleep"}

\* How many times job k occurs in a sequence of jobs.
Count(seq, k) == Cardinality({i \in 1..Len(seq) : seq[i] = k})

\* C1: under fair scheduling, with every process exiting with code 0, every
\* enqueued job is eventually popped from the waiting queue and spawned.
C1_EveryJobLaunched == \A k \in Jobs : (n_enq >= k) ~> (proc[k] # "none")

C3_ConcurrencyBound ==
    Cardinality({j \in Jobs : proc[j] = "running"}) <= MaxThreads(cpu_count)

\* C4: the processes are spawned in the order the jobs were enqueued: the
\* kth launch is the kth enqueued job.
C4_FifoLaunch == \A i \in 1..Len(launched) : launched[i] = i

\* All three jobs launched, the third while the caller was already waiting,
\* after workers completed.
C4_Witness ==
    /\ launched = <<1, 2, 3>>
    /\ pc[1] = "dead"
    /\ pc[2] = "dead"
    /\ pc[3] = "wf_duration"
    /\ pc[Main] \in WaitLabels

\* C5: wait_till_all_finished has returned only if the waiting queue is
\* empty and no launched process is still running.
C5_ReturnsWhenAllDone ==
    pc[Main] = "returned" =>
        (waiting_jobs = <<>> /\ \A j \in Jobs : proc[j] # "running")

\* C6: under fair scheduling, with every process exiting with code 0,
\* wait_till_all_finished eventually returns.
C6_WaitReturns == (pc[Main] \in WaitLabels) ~> (pc[Main] = "returned")

\* C7: the fill step a watcher runs at its end, with a job waiting,
\* launches the oldest waiting job.
C7_ImmediateRefill ==
    [][\A j \in Jobs :
          (pc[j] = "mr_body" /\ pc'[j] = "dead" /\ waiting_jobs # <<>>)
              => launched' = Append(launched, Head(waiting_jobs))]_vars

\* C8: every value stored in the progress table is a percentage between 0
\* and 100, also when the process reports a time past the file's duration.
C8_ProgressRange ==
    \A n \in Names :
        current_progress[n] # Absent => current_progress[n] \in 0..100

\* C9: a watcher whose file has duration 0 does not fault on the percentage
\* computation: no watcher thread ends on an uncaught exception.
C9_ZeroDurationNoFault ==
    \A j \in Jobs :
        (file[j] # NoFile /\ duration[file[j]] = 0) => pc[j] # "raised"

\* C10: as long as a job's entry is below 100, the next value written to
\* it is not smaller, however the stream falls into ten-byte reads.
C10_MonotonicProgress ==
    [][\A n \in Names :
          (current_progress[n] \in 0..99 /\ current_progress'[n] # Absent)
              => current_progress'[n] >= current_progress[n]]_vars

\* C11: once wait_till_all_finished has returned, every job that finished
\* with exit code 0 was shown at 100 in exactly one emitted report.
C11_ReportedOnce ==
    \A j \in Jobs :
        (pc[Main] = "returned" /\ pc[j] = "dead")
            => reported[basename(file[j])] = 1

\* C12: while _print_progress runs, the waiting queue and the active set
\* do not change, and the table changes only by its eviction, which removes
\* the entries at 100 and no other; an entry that is not in the table is
\* not in the strings of the next report.
C12_EvictionFrame ==
    [][pc[Main] \in {"wt_print", "wt_evict"} =>
          /\ waiting_jobs' = waiting_jobs
          /\ running_threads' = running_threads
          /\ \A n \in Names :
                current_progress'[n] =
                    IF pc'[Main] = "wt_sleep" /\ current_progress[n] = 100
                    THEN Absent ELSE current_progress[n]
          /\ \A n \in Names :
                (pc'[Main] = "wt_evict" /\ current_progress[n] = Absent)
                    => progress_str'[n] = Absent]_vars

\* A report has shown x at 100 and evicted it while y stays at 50 and a job
\* is still waiting.
C12_Witness ==
    /\ pc[Main] = "wt_sleep"
    /\ reported["x"] = 1
    /\ current_progress["x"] = Absent
    /\ current_progress["y"] = 50
    /\ waiting_jobs = <<3>>

\* C13: the waiting queue, the active set and the progress table change
\* only in steps of a thread that holds the scheduler lock.
C13_LockDiscipline ==
    [][sched_vars' # sched_vars => lock # NoThread]_vars

\* The watcher has left its polling loop: it writes the final 100, runs the
\* fill step and ends.
AfterLoopLabels == {"wf_final_lock", "wf_final", "mr_clean_lock", "mr_clean",
                    "mr_lock", "mr_body", "dead"}

\* C14: as long as a job's process has not exited with code 0, its watcher
\* has not left the polling loop, is still in the active set, and
\* wait_till_all_finished has not returned.
C14_SlotHeldUntilExit0 ==
    \A j \in Jobs :
        proc[j] \in {"running", "exit1"} =>
            /\ pc[j] \notin AfterLoopLabels
            /\ Count(running_threads, j) = 1
            /\ pc[Main] # "returned"

\* C15: a call of get_duration_sec made after a probe of the same path has
\* completed returns the value that probe reported and runs no probe.
C15_MemoizedSequential ==
    [][\A j \in Jobs :
          (pc[j] = "wf_duration" /\ pc'[j] # "wf_duration"
               /\ probes[file[j]] >= 1)
              => /\ pc'[j] = "wf_read"
                 /\ expected_duration'[j] = duration[file[j]]
                 /\ probes' = probes]_vars

\* Two watchers of the same file hold the same duration after one probe.
C15_Witness ==
    /\ pc[1] = "wf_read"
    /\ pc[2] = "wf_read"
    /\ file[1] = file[2]
    /\ probes[file[1]] = 1
    /\ expected_duration[1] = 60
    /\ expected_duration[2] = 60

\* C16: no path is probed more than once, also when several watchers ask
\* for its duration at the same time.
C16_ProbedAtMostOnce == \A f \in Files : probes[f] <= 1

\* C17: the percentage computed for a matched time=H:M:S and a duration
\* D > 0 is the floor of 100 * (3600 H + 60 M + S) / D, and it is the value
\* written to the table.
C17_PercentFloor ==
    [][\A j \in Jobs :
          /\ (pc[j] = "wf_read" /\ pc'[j] = "wf_lock") =>
                LET g == FirstMatch(buffer[j] \o Chunk(stream[j], pos[j]))
                    t == 3600 * g[1] + 60 * g[2] + g[3]
                    d == expected_duration[j]
                    p == progress'[j]
                IN  p * d <= 100 * t /\ 100 * t < (p + 1) * d
          /\ (pc[j] = "wf_write" /\ pc'[j] # "wf_write") =>
                current_progress'[basename(file[j])] = progress[j]]_vars

\* time=00:00:31 against a duration of 60: 51.67 is written as 51.
C17_Witness ==
    /\ pc[1] = "wf_read"
    /\ expected_duration[1] = 60
    /\ progress[1] = 51
    /\ current_progress["x"] = 51

\* C18: when an invocation of the fill step completes, the waiting queue
\* is empty or the active set is as large as the capacity.
C18_FillsCapacity ==
    [][\A t \in Threads :
          (pc[t] = "mr_body" /\ pc'[t] # "mr_body")
              => \/ waiting_jobs' = <<>>
                 \/ Len(running_threads') = MaxThreads(cpu_count)]_vars

\* C19: when a thread counts the active set, for a launch decision or for
\* the termination check, every worker in it has a process that has not
\* exited.
C19_ReapedBeforeCount ==
    \A t \in Threads :
        pc[t] \in {"mr_body", "wt_check"} =>
            \A i \in 1..Len(running_threads) :
                proc[running_threads[i]] = "running"

\* C20: between the building of the report's strings and the eviction the
\* table does not change, so the report shows the table as the eviction
\* finds it: an entry is evicted only if this report shows it at 100, and
\* the eviction removes no value that the report does not show.
C20_AtomicReport ==
    pc[Main] = "wt_evict" =>
        /\ progress_str = current_progress
        /\ \A n \in Names :
              Evict(current_progress)[n] # current_progress[n]
                  => progress_str[n] = 100

\* The report being emitted shows x at 100 while its process has exited and
\* its watcher is still alive.
C20_Witness ==
    /\ pc[Main] = "wt_evict"
    /\ progress_str["x"] = 100
    /\ \E j \in Jobs : pc[j] \in {"mr_clean_lock", "mr_lock"}

\* The watcher runs the fill step.
FillLabels == {"mr_clean_lock", "mr_clean", "mr_lock", "mr_body"}

\* C21: a watcher enters the fill step only by the step that writes 100 to
\* its job's entry, and from then on it writes nothing to the table: a job
\* it launches is launched after the entry was set to 100.
C21_FinalWriteThenFill ==
    [][\A j \in Jobs :
          /\ (pc[j] \notin FillLabels /\ pc'[j] \in FillLabels) =>
                /\ pc[j] = "wf_final"
                /\ current_progress'[basename(file[j])] = 100
          /\ (pc[j] \in FillLabels /\ pc'[j] # pc[j]) =>
                current_progress' = current_progress]_vars

\* The second job's watcher has written 100 and ended, and the third job
\* was launched by a completing watcher while the caller waits.
C21_Witness ==
    /\ pc[Main] \in WaitLabels
    /\ pc[2] = "dead"
    /\ current_progress["y"] = 100
    /\ launched = <<1, 2, 3>>
    /\ proc[3] = "running"

\* C22: a thread that spawns a process and starts its watcher, reads a
\* process's stderr, emits the report or sleeps does not hold the scheduler
\* lock while it does.
C22_NoLockAcrossIO ==
    [][\A t \in Threads :
          pc'[t] # pc[t] =>
              /\ (pc[t] = "mr_body" /\ launched' # launched) => lock # t
              /\ pc[t] = "wf_read" => lock # t
              /\ pc[t] = "wt_evict" => lock # t
              /\ pc[t] = "wt_sleep" => lock # t]_vars

C24_Supervised ==
    \A j \in Jobs :
        proc[j] = "running" =>
            (is_alive(j) /\ Count(running_threads, j) = 1)

\* C25: a thread that has ended, or has left the scheduler's methods, does
\* not hold the scheduler lock.
C25_LockReleased ==
    \A t \in Threads :
        pc[t] \in {"idle", "returned", "dead", "raised"} => lock # t

\* C26: a write by one job's watcher does not change what the table shows
\* for a live job on a different file, and the eviction does not remove what
\* it shows for a job whose process is running.
C26_ProgressIsolation ==
    [][/\ \A j \in Jobs : \A k \in Jobs :
             (pc[j] \in {"wf_write", "wf_final"} /\ pc'[j] # pc[j]
                  /\ is_alive(k) /\ file[k] # file[j])
                 => current_progress'[basename(file[k])]
                        = current_progress[basename(file[k])]
       /\ \A k \in Jobs :
             (pc[Main] = "wt_evict" /\ pc'[Main] # pc[Main]
                  /\ proc[k] = "running"
                  /\ current_progress[basename(file[k])] # Absent)
                 => current_progress'[basename(file[k])] # Absent]_vars

\* C27: for video type PAID and a book with n >= 1 chapters, the finished
\* chapters.csv holds the header, the intro row 0 and exactly one chapter row,
\* with ID 1: no row for any later chapter.
C27_PaidFirstChapterOnly ==
    (/\ chapters_csv.pc = "closed"
     /\ chapters_csv.video_type = PAID
     /\ Len(chapters_csv.chapters) >= 1)
        => /\ Len(chapters_csv.f) = 3
           /\ chapters_csv.f[1] = HeaderRow
           /\ chapters_csv.f[2][1] = "0"
           /\ chapters_csv.f[3][1] = "1"

\* C28: for every file cut_files has processed, the 'Bad file' error is
\* logged if the real duration of the written output is shorter than the
\* expected duration (last_position - first_position) by more than 0.5
\* seconds, and it is not logged otherwise.
C28_BadFileDetected ==
    \A k \in 1..Len(cut.checked) :
        cut.checked[k].logged <=>
            (cut.checked[k].real_duration + HalfSecond
                < cut.checked[k].expected_duration)

====
